---- MODULE Spec2Model ----
(***************************************************************************)
(* k shortest paths: reverse Dijkstra preprocessing (calculate_heuristic)  *)
(* followed by an A*-search (search), as implemented in                    *)
(* s5169483_k_shortest_paths.cpp, and the indexed binary heap (Queue) of   *)
(* custom-queue.cpp with the preprocessor built on it.                     *)
(*                                                                         *)
(* Edge weights and path lengths are doubles in the source; the model uses *)
(* naturals (sums of small integers are exact in a double) and the value   *)
(* INFINITY, which absorbs addition and is larger than every finite value. *)
(***************************************************************************)
EXTENDS Integers, Sequences, FiniteSets, Bags, TLC

VARIABLES
    vertices,          \* Graph::vertices: 0..n-1 -> Vertex record
    edges,             \* Graph::edges: 0..m-1 -> Edge record
    source,            \* main: source
    destination,       \* main: destination
    k,                 \* search: k (decremented by search)
    pc,                \* position of the program
    calls,             \* the calls the caller still has to make after the current one
    queue,             \* std::priority_queue<QueueElement> of the running function (a bag)
    visited_vertices,  \* calculate_heuristic: visited_vertices
    element,           \* the element popped by the current loop iteration
    out,               \* what search has written to std::cout, token by token
    heap,              \* Queue::queue of custom-queue.cpp (a vector, slot 0 first)
    saved,             \* the shortest_path values the first call of calculate_heuristic left
    updates            \* the calls of Queue::update the last loop iteration made

vars == <<vertices, edges, source, destination, k, pc, calls, queue,
          visited_vertices, element, out, heap, saved, updates>>

----------------------------------------------------------------------------
(* Bounds of the model. *)

NumVertices == 3       \* vertices of the generated graphs
MaxEdges == 3          \* edges of the generated graphs
MaxWeight == 1         \* edge weights are 0..MaxWeight
MaxK == 2              \* k is 0..MaxK
MaxPathLength == 6     \* search stops exploring beyond this path length
MaxQueue == 4          \* search stops exploring beyond this queue size
MaxWalkLen == 6        \* the reference enumeration of walks stops at this many edges

(* INFINITY of <cmath>: larger than every finite path length of the model. *)
INFINITY == 1000000

(* double addition restricted to non-negative values and +infinity *)
Plus(a, b) == IF a = INFINITY \/ b = INFINITY THEN INFINITY ELSE a + b

NoElement == [vertex_index |-> -1, priority |-> -1, path_length |-> -1]

----------------------------------------------------------------------------
(* The graph, as read_graph_from_file builds it. *)

Edge(w, f, t) == [weight |-> w, from |-> f, to |-> t]

(* lines 72-81: the indices i, i+1, ... of `es` (in the order the loader's  *)
(* loop meets them) that are pushed back to vertices[v].outgoing.           *)
RECURSIVE outgoing_of(_, _, _)
outgoing_of(es, v, i) ==
    IF i \notin DOMAIN es THEN <<>>
    ELSE (IF es[i].from = v THEN <<i>> ELSE <<>>) \o outgoing_of(es, v, i + 1)

(* the same for vertices[v].incoming *)
RECURSIVE incoming_of(_, _, _)
incoming_of(es, v, i) ==
    IF i \notin DOMAIN es THEN <<>>
    ELSE (IF es[i].to = v THEN <<i>> ELSE <<>>) \o incoming_of(es, v, i + 1)

(* Vertex {{}, {}, INFINITY} with every edge index pushed back to          *)
(* vertices[from].outgoing and vertices[to].incoming.                      *)
read_graph_from_file(n, es) ==
    [v \in 0..(n - 1) |->
        [outgoing |-> outgoing_of(es, v, 0),
         incoming |-> incoming_of(es, v, 0),
         shortest_path |-> INFINITY]]

(* The edge lists the model is run on: at most MaxEdges edges between       *)
(* NumVertices vertices, weights 0..MaxWeight, parallel edges and           *)
(* self-loops included. An edge list is taken in one fixed order (by       *)
(* EdgeRank); the order of the edges of a file only decides the order of    *)
(* pushes, and the queue is a bag.                                          *)
EdgeRank(e) == (e.from * NumVertices + e.to) * (MaxWeight + 1) + e.weight

EdgeChoices ==
    {Edge(w, f, t) : w \in 0..MaxWeight, f \in 0..(NumVertices - 1),
                     t \in 0..(NumVertices - 1)}

EdgeLists ==
    UNION {{es \in [0..(m - 1) -> EdgeChoices] :
                \A i \in 0..(m - 2) : EdgeRank(es[i]) <= EdgeRank(es[i + 1])}
           : m \in 0..MaxEdges}

(* The scenario of the specification: 4 vertices, edges 0->1 (1), 1->3 (1), *)
(* 0->2 (5), 2->3 (1).                                                      *)
ScenarioEdges ==
    [i \in 0..3 |-> <<Edge(1, 0, 1), Edge(1, 1, 3), Edge(5, 0, 2), Edge(1, 2, 3)>>[i + 1]]

----------------------------------------------------------------------------
(* std::priority_queue<QueueElement>: operator< is priority > other.priority, *)
(* so top() is an element of least priority; which one among equals is left  *)
(* to the library, hence any of them.                                        *)

QueueElement(v, p, l) == [vertex_index |-> v, priority |-> p, path_length |-> l]

push(q, e) == q (+) SetToBag({e})

(* mutant: operator< written as priority < other.priority *)
Tops_Greatest(q) ==
    {e \in BagToSet(q) : \A f \in BagToSet(q) : e.priority >= f.priority}

Tops(q) == {e \in BagToSet(q) : \A f \in BagToSet(q) : e.priority <= f.priority}

(* mutant: pop() leaves the element in the queue *)
pop_Keep(q, e) == q

pop(q, e) == q (-) SetToBag({e})

empty(q) == BagToSet(q) = {}

size(q) == BagCardinality(q)

----------------------------------------------------------------------------
(* calculate_heuristic of s5169483_k_shortest_paths.cpp (and check.cpp).    *)

(* The caller's next step after a function returns. *)
Return == IF calls = <<>> THEN "done" ELSE Head(calls)

(* lines 93-102 *)
calculate_heuristic ==
    /\ pc = "calculate_heuristic"
    /\ visited_vertices' = {}
    /\ queue' = push(EmptyBag, QueueElement(destination, 0, 0))
    /\ IF destination \in DOMAIN vertices
       THEN /\ vertices' = [vertices EXCEPT ![destination].shortest_path = 0]
            /\ pc' = "heuristic_loop"
       ELSE \* line 102 stores outside the vector: not followed further
            /\ vertices' = vertices
            /\ pc' = "undefined"
    /\ element' = NoElement
    /\ UNCHANGED <<edges, source, destination, k, calls, out, heap, saved, updates>>

(* mutant: the test path_length < prev_vertex.shortest_path left out *)
RECURSIVE ForIncoming_NoTest(_, _, _, _, _)
ForIncoming_NoTest(inc, i, distance, visited, st) ==
    IF i > Len(inc) THEN st
    ELSE LET edge == edges[inc[i]]
             path_length == Plus(distance, edge.weight)
         IN  ForIncoming_NoTest(inc, i + 1, distance, visited,
                IF edge.from \notin visited
                THEN [vertices |->
                         [st.vertices EXCEPT ![edge.from].shortest_path = path_length],
                      queue |->
                         push(st.queue, QueueElement(edge.from, path_length, path_length))]
                ELSE st)

(* mutant: a break after the first incoming edge *)
ForIncoming_FirstOnly(inc, i, distance, visited, st) ==
    IF i > Len(inc) THEN st
    ELSE LET edge == edges[inc[i]]
             path_length == Plus(distance, edge.weight)
         IN  IF /\ edge.from \notin visited
                /\ path_length < st.vertices[edge.from].shortest_path
             THEN [vertices |->
                      [st.vertices EXCEPT ![edge.from].shortest_path = path_length],
                   queue |->
                      push(st.queue, QueueElement(edge.from, path_length, path_length))]
             ELSE st

(* mutant: the element pushed carries the weight of the edge as its         *)
(* path_length                                                              *)
RECURSIVE ForIncoming_PushWeight(_, _, _, _, _)
ForIncoming_PushWeight(inc, i, distance, visited, st) ==
    IF i > Len(inc) THEN st
    ELSE LET edge == edges[inc[i]]
             path_length == Plus(distance, edge.weight)
         IN  ForIncoming_PushWeight(inc, i + 1, distance, visited,
                IF /\ edge.from \notin visited
                   /\ path_length < st.vertices[edge.from].shortest_path
                THEN [vertices |->
                         [st.vertices EXCEPT ![edge.from].shortest_path = path_length],
                      queue |->
                         push(st.queue, QueueElement(edge.from, path_length, edge.weight))]
                ELSE st)

(* lines 117-131: the incoming edges inc[i..] of the popped vertex, applied *)
(* to st = [vertices, queue].                                               *)
RECURSIVE ForIncoming(_, _, _, _, _)
ForIncoming(inc, i, distance, visited, st) ==
    IF i > Len(inc) THEN st
    ELSE LET edge == edges[inc[i]]
             path_length == Plus(distance, edge.weight)
         IN  ForIncoming(inc, i + 1, distance, visited,
                IF /\ edge.from \notin visited
                   /\ path_length < st.vertices[edge.from].shortest_path
                THEN [vertices |->
                         [st.vertices EXCEPT ![edge.from].shortest_path = path_length],
                      queue |->
                         push(st.queue, QueueElement(edge.from, path_length, path_length))]
                ELSE st)

(* lines 103-133: one iteration of the while loop, and the return when it   *)
(* leaves the queue empty.                                                  *)
calculate_heuristic_loop ==
    /\ pc = "heuristic_loop"
    /\ ~empty(queue)
    /\ \E top \in Tops(queue) :
         LET popped == pop(queue, top)
             skip == top.vertex_index \in visited_vertices
             visited == visited_vertices \cup {top.vertex_index}
             st == IF skip THEN [vertices |-> vertices, queue |-> popped]
                   ELSE ForIncoming(vertices[top.vertex_index].incoming, 1,
                                    top.path_length, visited,
                                    [vertices |-> vertices, queue |-> popped])
         IN  /\ element' = top
             /\ visited_vertices' = visited
             /\ vertices' = st.vertices
             /\ queue' = st.queue
             /\ IF empty(st.queue)
                THEN /\ pc' = Return
                     /\ calls' = IF calls = <<>> THEN calls ELSE Tail(calls)
                ELSE /\ pc' = pc
                     /\ calls' = calls
    /\ saved' = IF empty(queue') /\ saved = <<>>
                THEN [v \in DOMAIN vertices |-> vertices'[v].shortest_path]
                ELSE saved
    /\ UNCHANGED <<edges, source, destination, k, out, heap, updates>>

----------------------------------------------------------------------------
(* search of s5169483_k_shortest_paths.cpp.                                 *)

(* std::cout << path_length, << ", " and << std::endl, as tokens *)
Cost(c) == [kind |-> "cost", value |-> c]
Separator == [kind |-> ", ", value |-> 0]
Endl == [kind |-> "endl", value |-> 0]

(* lines 143-154 *)
search ==
    /\ pc = "search"
    /\ queue' = push(EmptyBag,
                     QueueElement(source, vertices[source].shortest_path, 0))
    /\ pc' = "search_loop"
    /\ element' = NoElement
    /\ UNCHANGED <<vertices, edges, source, destination, k, calls,
                   visited_vertices, out, heap, saved, updates>>

(* mutant: the priority is the heuristic alone *)
RECURSIVE ForOutgoing_HeuristicOnly(_, _, _, _)
ForOutgoing_HeuristicOnly(og, i, path_length, q) ==
    IF i > Len(og) THEN q
    ELSE LET edge == edges[og[i]]
             current_path_length == Plus(path_length, edge.weight)
             heuristic == vertices[edge.to].shortest_path
         IN  ForOutgoing_HeuristicOnly(og, i + 1, path_length,
                push(q, QueueElement(edge.to, heuristic, current_path_length)))

(* lines 179-192: the outgoing edges og[i..] of the popped vertex, pushed   *)
(* onto q.                                                                  *)
RECURSIVE ForOutgoing(_, _, _, _)
ForOutgoing(og, i, path_length, q) ==
    IF i > Len(og) THEN q
    ELSE LET edge == edges[og[i]]
             current_path_length == Plus(path_length, edge.weight)
             heuristic == vertices[edge.to].shortest_path
         IN  ForOutgoing(og, i + 1, path_length,
                push(q, QueueElement(edge.to,
                                     Plus(current_path_length, heuristic),
                                     current_path_length)))

(* The part of the state space the model explores. *)
WithinBounds(q) ==
    /\ size(q) <= MaxQueue
    /\ \A e \in BagToSet(q) : e.path_length <= MaxPathLength

(* lines 155-160: the loop test, top() and pop() *)
search_loop ==
    /\ pc = "search_loop"
    /\ ~empty(queue)
    /\ \E top \in Tops(queue) :
         /\ element' = top
         /\ queue' = pop(queue, top)
    /\ pc' = "search_body"
    /\ UNCHANGED <<vertices, edges, source, destination, k, calls,
                   visited_vertices, out, heap, saved, updates>>

(* after `continue` or the end of the body: the loop test, and the return   *)
(* at line 194 when the queue is empty                                      *)
LoopOrReturn(q) == IF empty(q) THEN Return ELSE "search_loop"

(* mutant: the vertex index is written instead of the path length *)
Emit_WrongField ==
    /\ queue' = queue
    /\ IF k > 1
       THEN /\ out' = out \o <<Cost(element.vertex_index), Separator>>
            /\ k' = k - 1
            /\ pc' = LoopOrReturn(queue)
       ELSE /\ out' = out \o <<Cost(element.vertex_index), Endl>>
            /\ k' = k
            /\ pc' = Return

(* mutant: the destination is expanded after its cost is written *)
Emit_AndExpand ==
    LET pushed == ForOutgoing(vertices[element.vertex_index].outgoing, 1,
                              element.path_length, queue)
    IN  /\ WithinBounds(pushed)
        /\ queue' = pushed
        /\ IF k > 1
           THEN /\ out' = out \o <<Cost(element.path_length), Separator>>
                /\ k' = k - 1
                /\ pc' = LoopOrReturn(pushed)
           ELSE /\ out' = out \o <<Cost(element.path_length), Endl>>
                /\ k' = k
                /\ pc' = Return

(* lines 164-177: the popped element is the destination *)
Emit ==
    /\ queue' = queue
    /\ IF k > 1
       THEN /\ out' = out \o <<Cost(element.path_length), Separator>>
            /\ k' = k - 1
            /\ pc' = LoopOrReturn(queue)
       ELSE /\ out' = out \o <<Cost(element.path_length), Endl>>
            /\ k' = k
            /\ pc' = Return

(* lines 178-192: the popped element is another vertex *)
Expand ==
    LET pushed == ForOutgoing(vertices[element.vertex_index].outgoing, 1,
                              element.path_length, queue)
    IN  /\ WithinBounds(pushed)
        /\ queue' = pushed
        /\ out' = out
        /\ k' = k
        /\ pc' = LoopOrReturn(pushed)

(* lines 164-193: the body of the while loop for the popped element *)
search_body ==
    /\ pc = "search_body"
    /\ IF element.vertex_index = destination THEN Emit ELSE Expand
    /\ UNCHANGED <<vertices, edges, source, destination, calls,
                   visited_vertices, element, heap, saved, updates>>

----------------------------------------------------------------------------
(* main of s5169483_k_shortest_paths.cpp: the graph is read, then           *)
(* calculate_heuristic(graph, destination) and                              *)
(* search(graph, source, destination, k) are called.                        *)

InitGraph(n, es) ==
    /\ edges = es
    /\ vertices = read_graph_from_file(n, es)
    /\ queue = EmptyBag
    /\ visited_vertices = {}
    /\ element = NoElement
    /\ out = <<>>
    /\ heap = <<>>
    /\ saved = <<>>
    /\ updates = <<>>

InitInputs ==
    \/ /\ \E es \in EdgeLists : InitGraph(NumVertices, es)
       /\ source \in 0..(NumVertices - 1)
       /\ destination \in 0..(NumVertices - 1)
       /\ k \in 0..MaxK
    \/ /\ InitGraph(4, ScenarioEdges)
       /\ source = 0
       /\ destination = 3
       /\ k = 2

Init ==
    /\ InitInputs
    /\ pc = "calculate_heuristic"
    /\ calls = <<"search">>

Next ==
    \/ calculate_heuristic
    \/ calculate_heuristic_loop
    \/ search
    \/ search_loop
    \/ search_body

Spec == Init /\ [][Next]_vars

----------------------------------------------------------------------------
(* Queue of custom-queue.cpp: a binary heap in a vector, slot 0 first, that *)
(* records in vertices[v].queue_index a slot for vertex v. The operations   *)
(* act on st = [queue, vertices]; slot i of the vector is st.queue[i + 1].  *)

(* SIZE_MAX, the queue_index of a vertex that was never pushed; the model   *)
(* takes the largest integer of the model checker.                          *)
SIZE_MAX == 2147483647

Element(v, p, l) == [vertex |-> v, priority |-> p, path_length |-> l]

(* Element::operator< *)
Less(a, b) == a.priority < b.priority

left_child(index) == index * 2 + 1

right_child(index) == index * 2 + 2

parent(index) == (index - 1) \div 2

has_children(q, index) == left_child(index) < Len(q)

has_right_child(q, index) == right_child(index) < Len(q)

(* mutant: the child of larger priority, as the name says *)
larger_child_Larger(q, index) ==
    LET l == left_child(index)
        r == right_child(index)
    IN  IF Less(q[l + 1], q[r + 1]) THEN r ELSE l

(* lines 117-126: the child of smaller priority *)
larger_child(q, index) ==
    LET l == left_child(index)
        r == right_child(index)
    IN  IF Less(q[l + 1], q[r + 1]) THEN l ELSE r

(* lines 127-134: the two elements change places, then the vertex of the    *)
(* element now at slot i is given queue_index j and the vertex of the       *)
(* element now at slot j is given queue_index i                             *)
swap(st, i, j) ==
    LET q == [st.queue EXCEPT ![i + 1] = st.queue[j + 1],
                              ![j + 1] = st.queue[i + 1]]
        v1 == [st.vertices EXCEPT ![q[i + 1].vertex].queue_index = j]
        v2 == [v1 EXCEPT ![q[j + 1].vertex].queue_index = i]
    IN  [queue |-> q, vertices |-> v2]

(* lines 72-79 *)
RECURSIVE sift_up(_, _)
sift_up(st, index) ==
    IF index > 0 /\ Less(st.queue[index + 1], st.queue[parent(index) + 1])
    THEN sift_up(swap(st, index, parent(index)), parent(index))
    ELSE st

(* lines 80-96 *)
RECURSIVE sift_down(_, _)
sift_down(st, index) ==
    IF ~has_children(st.queue, index) THEN st
    ELSE LET child_index == IF has_right_child(st.queue, index)
                            THEN larger_child(st.queue, index)
                            ELSE left_child(index)
         IN  IF Less(st.queue[child_index + 1], st.queue[index + 1])
             THEN sift_down(swap(st, child_index, index), child_index)
             ELSE st

(* lines 44-50 *)
Queue_push(st, e) ==
    LET index == Len(st.queue)
    IN  sift_up([queue |-> Append(st.queue, e),
                 vertices |-> [st.vertices EXCEPT ![e.vertex].queue_index = index]],
                index)

(* lines 51-58: the state after pop(); its result is st.queue[1] *)
Queue_pop(st) ==
    LET swapped == swap(st, 0, Len(st.queue) - 1)
    IN  sift_down([queue |-> SubSeq(swapped.queue, 1, Len(swapped.queue) - 1),
                   vertices |-> swapped.vertices],
                  0)

(* lines 59-64, for index < queue.size() *)
Queue_update(st, index, priority, path_length) ==
    sift_up([queue |-> [st.queue EXCEPT ![index + 1].priority = priority,
                                        ![index + 1].path_length = path_length],
             vertices |-> st.vertices],
            index)

(* read_graph_from_file of custom-queue.cpp, lines 150-169: an edge whose   *)
(* (from, to) pair occurred before in the file is not registered            *)
Dup(es, i) == \E j \in DOMAIN es : j < i /\ es[j].from = es[i].from /\ es[j].to = es[i].to

RECURSIVE forwards_of(_, _, _)
forwards_of(es, v, i) ==
    IF i \notin DOMAIN es THEN <<>>
    ELSE (IF es[i].from = v /\ ~Dup(es, i) THEN <<i>> ELSE <<>>)
         \o forwards_of(es, v, i + 1)

RECURSIVE backwards_of(_, _, _)
backwards_of(es, v, i) ==
    IF i \notin DOMAIN es THEN <<>>
    ELSE (IF es[i].to = v /\ ~Dup(es, i) THEN <<i>> ELSE <<>>)
         \o backwards_of(es, v, i + 1)

cq_read_graph_from_file(n, es) ==
    [v \in 0..(n - 1) |->
        [forwards |-> forwards_of(es, v, 0),
         backwards |-> backwards_of(es, v, 0),
         shortest_path |-> INFINITY,
         queue_index |-> SIZE_MAX]]

----------------------------------------------------------------------------
(* The Queue under any sequence of calls of its interface.                  *)

MaxHeap == 4           \* the queue holds at most this many elements
MaxPriority == 2       \* priorities are 0..MaxPriority

InQueue(v) == \E i \in 1..Len(heap) : heap[i].vertex = v

QueueState == [queue |-> heap, vertices |-> vertices]

Called(st) ==
    /\ heap' = st.queue
    /\ vertices' = st.vertices
    /\ UNCHANGED <<edges, source, destination, k, pc, calls, queue,
                   visited_vertices, out, saved, updates>>

(* queue.push(element), any vertex *)
CallPush ==
    /\ pc = "queue"
    /\ Len(heap) < MaxHeap
    /\ \E v \in DOMAIN vertices, p \in 0..MaxPriority :
         Called(Queue_push(QueueState, Element(v, p, p)))
    /\ element' = element

(* queue.push(element) for a vertex that has no element in the queue *)
CallPushAbsent ==
    /\ pc = "queue"
    /\ Len(heap) < MaxHeap
    /\ \E v \in DOMAIN vertices, p \in 0..MaxPriority :
         /\ ~InQueue(v)
         /\ Called(Queue_push(QueueState, Element(v, p, p)))
    /\ element' = element

(* queue.pop() on a queue that is not empty *)
CallPop ==
    /\ pc = "queue"
    /\ Len(heap) > 0
    /\ element' = heap[1]
    /\ Called(Queue_pop(QueueState))

(* queue.update(index, priority, priority) with a priority not larger than  *)
(* the one the slot holds                                                   *)
CallDecrease ==
    /\ pc = "queue"
    /\ \E index \in 0..(Len(heap) - 1) :
         \E p \in 0..heap[index + 1].priority :
            Called(Queue_update(QueueState, index, p, p))
    /\ element' = element

(* queue.update(index, priority, priority) with any priority *)
CallUpdate ==
    /\ pc = "queue"
    /\ \E index \in 0..(Len(heap) - 1), p \in 0..MaxPriority :
         Called(Queue_update(QueueState, index, p, p))
    /\ element' = element

InitQueue ==
    /\ edges = <<>>
    /\ vertices = cq_read_graph_from_file(NumVertices, <<>>)
    /\ heap = <<>>
    /\ source = 0
    /\ destination = 0
    /\ k = 0
    /\ pc = "queue"
    /\ calls = <<>>
    /\ queue = EmptyBag
    /\ visited_vertices = {}
    /\ element = NoElement
    /\ out = <<>>
    /\ saved = <<>>
    /\ updates = <<>>

NextQueue == CallPush \/ CallDecrease \/ CallPop

SpecQueue == InitQueue /\ [][NextQueue]_vars

NextIndexed == CallPushAbsent \/ CallUpdate \/ CallPop

SpecIndexed == InitQueue /\ [][NextIndexed]_vars

----------------------------------------------------------------------------
(* calculate_heuristic of custom-queue.cpp, on the Queue.                   *)

(* queue[index] with index >= queue.size() is undefined behaviour: the      *)
(* store of path_length lands outside the vector. It may be lost, or land   *)
(* on any vertex's shortest_path; the program is not followed further.      *)
StrayStore(vs, path_length) ==
    {vs} \cup {[vs EXCEPT ![v].shortest_path = path_length] : v \in DOMAIN vs}

(* A call queue.update(index, priority, path_length) as it is made: the     *)
(* vertex it is meant for, the size of the queue, the element the slot      *)
(* holds when the index is within the queue, and the element the queue      *)
(* holds for the vertex, wherever it is.                                    *)
NoSlot == [vertex |-> -1, priority |-> -1, path_length |-> -1]

EntryOf(q, vertex) ==
    IF \E n \in 1..Len(q) : q[n].vertex = vertex
    THEN q[CHOOSE n \in 1..Len(q) : q[n].vertex = vertex]
    ELSE NoSlot

UpdateCall(q, index, vertex, priority) ==
    [index |-> index, size |-> Len(q), vertex |-> vertex, priority |-> priority,
     slot |-> IF index < Len(q) THEN q[index + 1] ELSE NoSlot,
     entry |-> EntryOf(q, vertex)]

(* lines 191-209: the backwards edges bw[i..] of the popped vertex, applied *)
(* to st = [queue, vertices, undefined, stored, updates]                    *)
RECURSIVE ForBackwards(_, _, _, _, _)
ForBackwards(bw, i, distance, visited, st) ==
    IF i > Len(bw) \/ st.undefined THEN st
    ELSE LET edge == edges[bw[i]]
             prev_vertex == st.vertices[edge.from]
             path_length == Plus(distance, edge.weight)
             qst == [queue |-> st.queue, vertices |-> st.vertices]
             pushes == edge.from \notin visited /\ prev_vertex.queue_index = SIZE_MAX
             calls_update == edge.from \notin visited /\ prev_vertex.queue_index # SIZE_MAX
             next ==
                IF pushes
                THEN Queue_push(qst, Element(edge.from, path_length, path_length))
                ELSE IF calls_update /\ prev_vertex.queue_index < Len(st.queue)
                THEN Queue_update(qst, prev_vertex.queue_index, path_length, path_length)
                ELSE qst
             undefined == calls_update /\ prev_vertex.queue_index >= Len(st.queue)
         IN  ForBackwards(bw, i + 1, distance, visited,
                [queue |-> next.queue, vertices |-> next.vertices,
                 undefined |-> undefined, stored |-> path_length,
                 updates |->
                    IF calls_update
                    THEN Append(st.updates,
                                UpdateCall(st.queue, prev_vertex.queue_index,
                                           edge.from, path_length))
                    ELSE st.updates])

(* lines 176-182 *)
cq_calculate_heuristic ==
    /\ pc = "cq_calculate_heuristic"
    /\ LET st == Queue_push([queue |-> <<>>, vertices |-> vertices],
                            Element(destination, 0, 0))
       IN  /\ heap' = st.queue
           /\ vertices' = [st.vertices EXCEPT ![destination].shortest_path = 0]
    /\ visited_vertices' = {}
    /\ pc' = "cq_heuristic_loop"
    /\ element' = NoElement
    /\ updates' = <<>>
    /\ UNCHANGED <<edges, source, destination, k, calls, queue, out, saved>>

(* lines 183-211: one iteration of the while loop, and the return when it   *)
(* leaves the queue empty                                                   *)
cq_calculate_heuristic_loop ==
    /\ pc = "cq_heuristic_loop"
    /\ heap # <<>>
    /\ LET top == heap[1]
           popped == Queue_pop([queue |-> heap, vertices |-> vertices])
           skip == top.vertex \in visited_vertices
           visited == visited_vertices \cup {top.vertex}
           start == [queue |-> popped.queue, vertices |-> popped.vertices,
                     undefined |-> FALSE, stored |-> 0, updates |-> <<>>]
           st == IF skip THEN start
                 ELSE ForBackwards(popped.vertices[top.vertex].backwards, 1,
                                   top.path_length, visited, start)
       IN  /\ element' = top
           /\ visited_vertices' = visited
           /\ heap' = st.queue
           /\ updates' = st.updates
           /\ IF st.undefined
              THEN /\ vertices' \in StrayStore(st.vertices, st.stored)
                   /\ pc' = "undefined"
                   /\ calls' = calls
              ELSE /\ vertices' = st.vertices
                   /\ IF st.queue = <<>>
                      THEN /\ pc' = Return
                           /\ calls' = IF calls = <<>> THEN calls ELSE Tail(calls)
                      ELSE /\ pc' = pc
                           /\ calls' = calls
    /\ saved' = IF pc' \notin {"cq_heuristic_loop", "undefined"} /\ saved = <<>>
                THEN [v \in DOMAIN vertices |-> vertices'[v].shortest_path]
                ELSE saved
    /\ UNCHANGED <<edges, source, destination, k, queue, out>>

(* search of custom-queue.cpp, lines 216-223 *)
cq_search ==
    /\ pc = "cq_search"
    /\ LET st == Queue_push([queue |-> <<>>, vertices |-> vertices],
                            Element(source, vertices[source].shortest_path, 0))
       IN  /\ heap' = st.queue
           /\ vertices' = st.vertices
    /\ pc' = "cq_search_loop"
    /\ element' = NoElement
    /\ UNCHANGED <<edges, source, destination, k, calls, queue,
                   visited_vertices, out, saved, updates>>

(* lines 239-248: the forwards edges fw[i..] of the popped vertex, pushed   *)
(* onto st = [queue, vertices]                                              *)
RECURSIVE ForForwards(_, _, _, _)
ForForwards(fw, i, path_length, st) ==
    IF i > Len(fw) THEN st
    ELSE LET edge == edges[fw[i]]
             current_path_length == Plus(path_length, edge.weight)
             heuristic == st.vertices[edge.to].shortest_path
         IN  ForForwards(fw, i + 1, path_length,
                Queue_push(st, Element(edge.to,
                                       Plus(current_path_length, heuristic),
                                       current_path_length)))

(* The part of the state space the model explores. *)
HeapWithinBounds(q) ==
    /\ Len(q) <= MaxHeap
    /\ \A i \in 1..Len(q) : q[i].path_length <= MaxPathLength

(* lines 224-249: one iteration of the while loop, and the return           *)
cq_search_loop ==
    /\ pc = "cq_search_loop"
    /\ heap # <<>>
    /\ LET top == heap[1]
           popped == Queue_pop([queue |-> heap, vertices |-> vertices])
           emits == top.vertex = destination
           st == IF emits THEN popped
                 ELSE ForForwards(popped.vertices[top.vertex].forwards, 1,
                                  top.path_length, popped)
           returns == (emits /\ k <= 1) \/ st.queue = <<>>
       IN  /\ HeapWithinBounds(st.queue)
           /\ element' = top
           /\ heap' = st.queue
           /\ vertices' = st.vertices
           /\ out' = IF ~emits THEN out
                     ELSE IF k > 1 THEN out \o <<Cost(top.path_length), Separator>>
                     ELSE out \o <<Cost(top.path_length), Endl>>
           /\ k' = IF emits /\ k > 1 THEN k - 1 ELSE k
           /\ pc' = IF returns THEN Return ELSE pc
           /\ calls' = IF returns /\ calls # <<>> THEN Tail(calls) ELSE calls
    /\ UNCHANGED <<edges, source, destination, queue, visited_vertices,
                   saved, updates>>

(* The edge lists of custom-queue.cpp's runs, in every order. *)
EdgeFiles == UNION {[0..(m - 1) -> EdgeChoices] : m \in 0..MaxEdges}

(* calculate_heuristic(graph, destination) called twice on one graph *)
InitCustom ==
    /\ \E es \in EdgeFiles :
         /\ edges = es
         /\ vertices = cq_read_graph_from_file(NumVertices, es)
    /\ destination \in 0..(NumVertices - 1)
    /\ source = 0
    /\ k = 1
    /\ pc = "cq_calculate_heuristic"
    /\ calls = <<"cq_calculate_heuristic">>
    /\ heap = <<>>
    /\ queue = EmptyBag
    /\ visited_vertices = {}
    /\ element = NoElement
    /\ out = <<>>
    /\ saved = <<>>
    /\ updates = <<>>

NextCustom == cq_calculate_heuristic \/ cq_calculate_heuristic_loop

SpecCustom == InitCustom /\ [][NextCustom]_vars

(* main of custom-queue.cpp with the call of search at line 296 made:       *)
(* calculate_heuristic(graph, destination), then                            *)
(* search(graph, source, destination, k)                                    *)
InitCustomSearch ==
    /\ \E es \in EdgeFiles :
         /\ edges = es
         /\ vertices = cq_read_graph_from_file(NumVertices, es)
    /\ destination \in 0..(NumVertices - 1)
    /\ source \in 0..(NumVertices - 1)
    /\ k \in 1..MaxK
    /\ pc = "cq_calculate_heuristic"
    /\ calls = <<"cq_search">>
    /\ heap = <<>>
    /\ queue = EmptyBag
    /\ visited_vertices = {}
    /\ element = NoElement
    /\ out = <<>>
    /\ saved = <<>>
    /\ updates = <<>>

NextCustomSearch ==
    \/ cq_calculate_heuristic
    \/ cq_calculate_heuristic_loop
    \/ cq_search
    \/ cq_search_loop

SpecCustomSearch == InitCustomSearch /\ [][NextCustomSearch]_vars

(* calculate_heuristic of the main program called twice on one graph *)
InitTwice ==
    /\ InitInputs
    /\ pc = "calculate_heuristic"
    /\ calls = <<"calculate_heuristic">>

NextTwice == calculate_heuristic \/ calculate_heuristic_loop

SpecTwice == InitTwice /\ [][NextTwice]_vars

----------------------------------------------------------------------------
(* search and check_path of check.cpp. Its queue elements carry the path,   *)
(* the vertices visited so far; its Vertex calls the two lists forwards and *)
(* backwards, and its read_graph_from_file and calculate_heuristic are      *)
(* those of the main program, so the model keeps the main program's graph.  *)

CheckElement(v, p, c, path) ==
    [vertex |-> v, priority |-> p, path_cost |-> c, path |-> path]

(* lines 113-119: the weight of the first edge of fw[j..] that leads to     *)
(* next_vertex, or found = FALSE                                            *)
RECURSIVE FirstEdgeTo(_, _, _)
FirstEdgeTo(fw, j, next_vertex) ==
    IF j > Len(fw) THEN [found |-> FALSE, weight |-> 0]
    ELSE IF edges[fw[j]].to = next_vertex
    THEN [found |-> TRUE, weight |-> edges[fw[j]].weight]
    ELSE FirstEdgeTo(fw, j + 1, next_vertex)

(* lines 108-126: the loop from position i of the path (1-based) on, with   *)
(* the path_length summed so far                                            *)
RECURSIVE PathLength(_, _, _)
PathLength(path, i, path_length) ==
    IF i > Len(path) - 1
    THEN [found |-> TRUE, path_length |-> path_length, i |-> i]
    ELSE LET first == FirstEdgeTo(vertices[path[i]].outgoing, 1, path[i + 1])
         IN  IF first.found
             THEN PathLength(path, i + 1, Plus(path_length, first.weight))
             ELSE [found |-> FALSE, path_length |-> path_length, i |-> i]

Printed(kind, value) == [kind |-> kind, value |-> value]

(* lines 104-137: what check_path writes, to std::cerr or std::cout *)
check_path(path, path_cost) ==
    LET sum == PathLength(path, 1, 0)
    IN  IF ~sum.found
        THEN <<Printed("ERROR!!!", 0), Printed("vertex", path[sum.i]),
               Printed("vertex", path[sum.i + 1])>>
        ELSE IF sum.path_length # path_cost
        THEN <<Printed("PATH LENGTH DOES NOT MATCH", 0),
               Printed("path_length", sum.path_length),
               Printed("path_cost", path_cost)>>
        ELSE [i \in 1..Len(path) |-> Printed("vertex", path[i])]
             \o <<Printed("all good", 0)>>

(* lines 142-150 *)
ck_search ==
    /\ pc = "ck_search"
    /\ queue' = push(EmptyBag,
                     CheckElement(source, vertices[source].shortest_path, 0,
                                  <<source>>))
    /\ pc' = "ck_search_loop"
    /\ element' = NoElement
    /\ UNCHANGED <<vertices, edges, source, destination, k, calls,
                   visited_vertices, out, heap, saved, updates>>

(* lines 151-155: the loop test, top() and pop() *)
ck_search_loop ==
    /\ pc = "ck_search_loop"
    /\ ~empty(queue)
    /\ \E top \in Tops(queue) :
         /\ element' = top
         /\ queue' = pop(queue, top)
    /\ pc' = "ck_search_body"
    /\ UNCHANGED <<vertices, edges, source, destination, k, calls,
                   visited_vertices, out, heap, saved, updates>>

(* lines 169-181: the forwards edges fw[i..] of the popped element, pushed  *)
(* onto q with the path extended                                            *)
RECURSIVE ForForwardsPath(_, _, _, _)
ForForwardsPath(fw, i, el, q) ==
    IF i > Len(fw) THEN q
    ELSE LET edge == edges[fw[i]]
             current_path_cost == Plus(el.path_cost, edge.weight)
             heuristic == vertices[edge.to].shortest_path
         IN  ForForwardsPath(fw, i + 1, el,
                push(q, CheckElement(edge.to,
                                     Plus(current_path_cost, heuristic),
                                     current_path_cost,
                                     Append(el.path, edge.to))))

MaxPathVertices == 4   \* search of check.cpp stops exploring beyond paths of this many vertices

(* The part of the state space the model explores. *)
CheckWithinBounds(q) ==
    /\ size(q) <= MaxQueue
    /\ \A e \in BagToSet(q) : /\ e.path_cost <= MaxPathLength
                               /\ Len(e.path) <= MaxPathVertices

(* lines 156-182: the body of the while loop for the popped element;        *)
(* check_path leaves the program by exit(0) when it finds no edge           *)
ck_search_body ==
    /\ pc = "ck_search_body"
    /\ IF element.vertex = destination
       THEN LET checked == check_path(element.path, element.path_cost)
            IN  /\ queue' = queue
                /\ IF checked[1].kind = "ERROR!!!"
                   THEN /\ out' = out \o checked
                        /\ k' = k
                        /\ pc' = "exit"
                   ELSE IF k > 1
                   THEN /\ out' = out \o checked
                                      \o <<Cost(element.path_cost), Separator>>
                        /\ k' = k - 1
                        /\ pc' = IF empty(queue) THEN Return ELSE "ck_search_loop"
                   ELSE /\ out' = out \o checked
                                      \o <<Cost(element.path_cost), Endl>>
                        /\ k' = k
                        /\ pc' = Return
       ELSE LET pushed == ForForwardsPath(vertices[element.vertex].outgoing, 1,
                                          element, queue)
            IN  /\ CheckWithinBounds(pushed)
                /\ queue' = pushed
                /\ out' = out
                /\ k' = k
                /\ pc' = IF empty(pushed) THEN Return ELSE "ck_search_loop"
    /\ UNCHANGED <<vertices, edges, source, destination, calls,
                   visited_vertices, element, heap, saved, updates>>

(* main of check.cpp: calculate_heuristic, then search *)
InitCheck ==
    /\ InitInputs
    /\ pc = "calculate_heuristic"
    /\ calls = <<"ck_search">>

NextCheck ==
    \/ calculate_heuristic
    \/ calculate_heuristic_loop
    \/ ck_search
    \/ ck_search_loop
    \/ ck_search_body

SpecCheck == InitCheck /\ [][NextCheck]_vars

----------------------------------------------------------------------------
(* The loaders an edge at a time, and main up to the end of preprocessing,  *)
(* on any numbers an input file can hold.                                   *)

MaxFileEdges == 2      \* edges of the input files that are read an edge at a time

(* The edges a file can hold: a weight can be negative, and an index can be *)
(* NumVertices, which is outside [0, num_vertices).                         *)
FileEdges ==
    {Edge(w, f, t) : w \in (-1)..MaxWeight, f \in 0..NumVertices, t \in 0..NumVertices}

num_read == Cardinality(DOMAIN edges)

(* read_graph_from_file of s5169483_k_shortest_paths.cpp, lines 72-82: one  *)
(* iteration of the loop, or the return when i = num_edges. An index        *)
(* outside the vertices makes lines 79-80 access the vector out of range:   *)
(* the program is not followed further.                                     *)
read_edge ==
    /\ pc = "read_graph_from_file"
    /\ \/ /\ num_read < MaxFileEdges
          /\ \E e \in FileEdges :
               LET i == num_read
                   pushed_from == [vertices EXCEPT ![e.from].outgoing = Append(@, i)]
                   pushed_to == [pushed_from EXCEPT ![e.to].incoming = Append(@, i)]
               IN  /\ edges' = edges @@ (i :> e)
                   /\ IF e.from \notin DOMAIN vertices
                      THEN vertices' = vertices /\ pc' = "undefined"
                      ELSE IF e.to \notin DOMAIN vertices
                      THEN vertices' = pushed_from /\ pc' = "undefined"
                      ELSE vertices' = pushed_to /\ pc' = pc
       \/ /\ edges' = edges
          /\ vertices' = vertices
          /\ pc' = "main"
    /\ UNCHANGED <<source, destination, k, calls, queue, visited_vertices,
                   element, out, heap, saved, updates>>

(* read_graph_from_file of custom-queue.cpp, lines 150-170 *)
cq_read_edge ==
    /\ pc = "cq_read_graph_from_file"
    /\ \/ /\ num_read < MaxFileEdges
          /\ \E e \in FileEdges :
               LET i == num_read
                   dup == \E j \in 1..Len(vertices[e.to].backwards) :
                             e.from = edges[vertices[e.to].backwards[j]].from
                   pushed_from == [vertices EXCEPT ![e.from].forwards = Append(@, i)]
                   pushed_to == [pushed_from EXCEPT ![e.to].backwards = Append(@, i)]
               IN  /\ edges' = edges @@ (i :> e)
                   /\ IF e.to \notin DOMAIN vertices
                      THEN vertices' = vertices /\ pc' = "undefined"
                      ELSE IF dup
                      THEN vertices' = vertices /\ pc' = pc
                      ELSE IF e.from \notin DOMAIN vertices
                      THEN vertices' = vertices /\ pc' = "undefined"
                      ELSE vertices' = pushed_to /\ pc' = pc
       \/ /\ edges' = edges
          /\ vertices' = vertices
          /\ pc' = "cq_main"
    /\ UNCHANGED <<source, destination, k, calls, queue, visited_vertices,
                   element, out, heap, saved, updates>>

InitLoader ==
    /\ edges = <<>>
    /\ \/ /\ pc = "read_graph_from_file"
          /\ vertices = read_graph_from_file(NumVertices, <<>>)
       \/ /\ pc = "cq_read_graph_from_file"
          /\ vertices = cq_read_graph_from_file(NumVertices, <<>>)
    /\ source = 0
    /\ destination = 0
    /\ k = 0
    /\ calls = <<>>
    /\ queue = EmptyBag
    /\ visited_vertices = {}
    /\ element = NoElement
    /\ out = <<>>
    /\ heap = <<>>
    /\ saved = <<>>
    /\ updates = <<>>

NextLoader == read_edge \/ cq_read_edge

SpecLoader == InitLoader /\ [][NextLoader]_vars

(* main of s5169483_k_shortest_paths.cpp, lines 221-230: source,            *)
(* destination and k are read, and calculate_heuristic is called            *)
main ==
    /\ pc = "main"
    /\ source' \in 0..NumVertices
    /\ destination' \in 0..NumVertices
    /\ k' \in 0..MaxK
    /\ pc' = "calculate_heuristic"
    /\ UNCHANGED <<vertices, edges, calls, queue, visited_vertices, element,
                   out, heap, saved, updates>>

InitInput ==
    /\ InitLoader
    /\ pc = "read_graph_from_file"

NextInput ==
    \/ read_edge
    \/ main
    \/ calculate_heuristic
    \/ calculate_heuristic_loop

SpecInput == InitInput /\ [][NextInput]_vars

----------------------------------------------------------------------------
(* Reference notions of the graph, computed from the edge array alone.      *)

Min(S) == CHOOSE x \in S : \A y \in S : x <= y

EdgesFrom(v) == {i \in DOMAIN edges : edges[i].from = v}

(* least total weight of a walk of at most n edges from v to the            *)
(* destination; INFINITY when there is none                                 *)
RECURSIVE DistanceWithin(_, _)
DistanceWithin(v, n) ==
    IF v = destination THEN 0
    ELSE IF n = 0 THEN INFINITY
    ELSE Min({INFINITY} \cup
             {Plus(edges[i].weight, DistanceWithin(edges[i].to, n - 1)) :
                i \in EdgesFrom(v)})

(* With non-negative weights a lightest walk repeats no vertex. *)
Distance(v) == DistanceWithin(v, Cardinality(DOMAIN vertices) - 1)

(* the vertices from which a walk of at most n edges leads to w *)
RECURSIVE ReachWithin(_, _)
ReachWithin(w, n) ==
    IF n = 0 THEN {w}
    ELSE LET R == ReachWithin(w, n - 1)
         IN  R \cup {edges[i].from : i \in {j \in DOMAIN edges : edges[j].to \in R}}

WalkExists(v, w) == v \in ReachWithin(w, Cardinality(DOMAIN vertices))

(* number of walks (sequences of edges, the empty one included) of at most  *)
(* n edges from v to the destination with total weight <= budget; with      *)
(* `through` the walks that pass through the destination and come back to   *)
(* it are counted, without it only the walks that end at their first visit  *)
(* of the destination                                                       *)
RECURSIVE CountWalks(_, _, _, _)
RECURSIVE CountVia(_, _, _, _, _)
CountWalks(v, budget, n, through) ==
    IF budget < 0 THEN 0
    ELSE IF v = destination /\ ~through THEN 1
    ELSE (IF v = destination THEN 1 ELSE 0)
         + (IF n = 0 THEN 0 ELSE CountVia(vertices[v].outgoing, 1, budget, n, through))

CountVia(og, i, budget, n, through) ==
    IF i > Len(og) THEN 0
    ELSE CountWalks(edges[og[i]].to, budget - edges[og[i]].weight, n - 1, through)
         + CountVia(og, i + 1, budget, n, through)

(* c is the i-th smallest element of the multiset of the walks' weights *)
IsIthSmallest(c, i, through) ==
    /\ CountWalks(source, c - 1, MaxWalkLen, through) < i
    /\ CountWalks(source, c, MaxWalkLen, through) >= i

IsCost(t) == t.kind = "cost"

(* the costs search has written so far, in order *)
Costs == LET cs == SelectSeq(out, IsCost) IN [i \in 1..Len(cs) |-> cs[i].value]

HeuristicReturned == pc \in {"search", "search_loop", "search_body", "done"}

SearchReturned == pc = "done"

Scenario == edges = ScenarioEdges /\ source = 0 /\ destination = 3

----------------------------------------------------------------------------
(* C1: when calculate_heuristic has returned, shortest_path[v] is the least *)
(* total weight of a walk from v to the destination (0 for the destination) *)
(* and is INFINITY exactly when there is no such walk.                      *)
ThmC1 ==
    HeuristicReturned =>
        \A v \in DOMAIN vertices :
            /\ vertices[v].shortest_path = Distance(v)
            /\ (vertices[v].shortest_path = INFINITY) <=> ~WalkExists(v, destination)
            /\ (v = destination => vertices[v].shortest_path = 0)

WitC1 ==
    /\ HeuristicReturned
    /\ \E v, w \in DOMAIN vertices :
         /\ vertices[v].shortest_path = 1
         /\ Cardinality(EdgesFrom(v)) >= 2
         /\ vertices[w].shortest_path = INFINITY
         /\ EdgesFrom(w) # {}

(* C2 as stated: the i-th cost written by search is the i-th smallest total *)
(* weight among all walks from the source to the destination, and the       *)
(* scenario of the specification writes 2 then 6.                           *)
CexC2 ==
    /\ \A i \in 1..Len(Costs) : IsIthSmallest(Costs[i], i, TRUE)
    /\ (Scenario /\ SearchReturned) => Costs = <<2, 6>>

(* C2 amended: the i-th cost written by search is the i-th smallest total   *)
(* weight among the walks from the source that end at their first visit of  *)
(* the destination, and the scenario of the specification writes 2 then 6.  *)
ThmC2 ==
    /\ \A i \in 1..Len(Costs) : IsIthSmallest(Costs[i], i, FALSE)
    /\ (Scenario /\ SearchReturned) => Costs = <<2, 6>>

WitC2 ==
    /\ SearchReturned
    /\ Len(Costs) = 2
    /\ Costs[1] < Costs[2]
    /\ \E i, j \in DOMAIN edges : i # j /\ edges[i].from = edges[j].from
                                        /\ edges[i].to = edges[j].to

(* C3: the costs search writes are non-decreasing. *)
ThmC3 == \A i \in 2..Len(Costs) : Costs[i - 1] <= Costs[i]

WitC3 == Len(Costs) = 2 /\ Costs[1] < Costs[2] /\ size(queue) > 0

(* C9: when source = destination, the first element search pops is the      *)
(* source and the first cost it writes is 0, whatever k is.                 *)
ThmC9 ==
    /\ (source = destination /\ pc = "search_body") => element.vertex_index = source
    /\ (source = destination /\ SearchReturned)
           => /\ element.vertex_index = source
              /\ Costs # <<>>
              /\ Costs[1] = 0
              /\ IsCost(out[1])

WitC9 ==
    /\ source = destination
    /\ SearchReturned
    /\ k = 0
    /\ vertices[source].outgoing # <<>>
    /\ Costs = <<0>>

(* the k search was called with: every separator written is one decrement *)
IsSeparator(t) == t.kind = ", "

CalledK == k + Len(SelectSeq(out, IsSeparator))

(* a weight no walk of the model reaches *)
AnyWeight == INFINITY - 1

(* the number of walks from the source to the destination is finite: none   *)
(* is long enough to repeat a vertex                                        *)
FinitelyManyWalks ==
    LET n == Cardinality(DOMAIN vertices)
    IN  CountWalks(source, AnyWeight, n - 1, TRUE)
          = CountWalks(source, AnyWeight, 2 * n - 1, TRUE)

NumberOfWalks == CountWalks(source, AnyWeight, Cardinality(DOMAIN vertices) - 1, TRUE)

(* search has met a bound of the model: the pushes are not explored *)
Bounded == pc = "search_body" /\ ~ENABLED search_body

(* C7 as stated, the parts a finite run decides: when no walk leads from    *)
(* the source to the destination, search writes no cost, and an iteration   *)
(* that pops a vertex whose shortest_path is INFINITY pushes nothing.       *)
CexC7 ==
    /\ [](~WalkExists(source, destination) => Costs = <<>>)
    /\ [][(/\ ~WalkExists(source, destination)
           /\ pc = "search_body"
           /\ vertices[element.vertex_index].shortest_path = INFINITY)
          => queue' = queue]_vars

(* C8 as stated: when the walks from the source to the destination are      *)
(* finitely many, N, and k >= 1, search returns having written exactly      *)
(* min(k, N) costs. (Stated for N >= 1; with no walk at all it is C7.)      *)
CexC8 ==
    (FinitelyManyWalks /\ NumberOfWalks >= 1 /\ k >= 1)
        => <>(\/ SearchReturned /\ Len(Costs) = Min({CalledK, NumberOfWalks})
              \/ Bounded)

FairSpec == Init /\ [][Next]_vars /\ WF_vars(Next)


(* C4: after any pushes, updates to a priority that is not larger, and pops *)
(* of a non-empty queue, pop returns an element whose priority is <= the    *)
(* priority of every element the queue held when pop was called.            *)
ThmC4 ==
    [][Len(heap') < Len(heap)
        => /\ \A i \in 1..Len(heap) : element'.priority <= heap[i].priority
           /\ \E i \in 1..Len(heap) : element' = heap[i]]_vars

WitC4 ==
    /\ element # NoElement
    /\ Len(heap) >= 3
    /\ \A i \in 1..Len(heap) : heap[i].priority > element.priority
    /\ heap[2].priority > heap[3].priority

(* C5 as stated: with at most one element per vertex, the element at slot i *)
(* belongs to a vertex whose queue_index is i.                              *)
CexC5 ==
    \A i \in 0..(Len(heap) - 1) : vertices[heap[i + 1].vertex].queue_index = i


FirstCallReturned == saved # <<>>

SecondCall == saved # <<>> /\ calls = <<>>

(* C6 as stated: when calculate_heuristic of custom-queue.cpp returns,      *)
(* every vertex from which the destination can be reached has its shortest  *)
(* distance to the destination in shortest_path, and every other vertex     *)
(* has INFINITY.                                                            *)
CexC6 ==
    FirstCallReturned => \A v \in DOMAIN vertices : saved[v] = Distance(v)

MainIdempotent ==
    /\ SecondCall => \A v \in DOMAIN vertices : vertices[v].shortest_path = saved[v]
    /\ [][SecondCall => vertices' = vertices]_vars

(* C11 as stated: from the call of search to its return no field of a       *)
(* vertex (shortest_path, queue_index, the lists of edge indices) and no    *)
(* edge is modified, in search of custom-queue.cpp.                         *)
CexC11 ==
    [][(pc \in {"cq_search", "cq_search_loop"})
          => (vertices' = vertices /\ edges' = edges)]_vars

(* The same for search of the main program, where it holds. *)
MainSearchReadsOnly ==
    [][(pc \in {"search", "search_loop", "search_body"})
          => (vertices' = vertices /\ edges' = edges)]_vars

(* how often x occurs in the list seq *)
Count(seq, x) == Cardinality({j \in 1..Len(seq) : seq[j] = x})

Loaded == pc \in {"main", "cq_main"}

(* the loader, an edge at a time, builds what read_graph_from_file describes *)
LoadedAsDescribed ==
    /\ pc = "main" => vertices = read_graph_from_file(NumVertices, edges)
    /\ pc = "cq_main" => vertices = cq_read_graph_from_file(NumVertices, edges)

(* C12 as stated: when a loader has read the edges, the position i of every *)
(* edge occurs exactly once in the outgoing (forwards) list of its `from`   *)
(* and exactly once in the incoming (backwards) list of its `to`, in the    *)
(* main program and in custom-queue.cpp.                                    *)
CexC12 ==
    /\ pc = "main" =>
          \A i \in DOMAIN edges :
             /\ Count(vertices[edges[i].from].outgoing, i) = 1
             /\ Count(vertices[edges[i].to].incoming, i) = 1
    /\ pc = "cq_main" =>
          \A i \in DOMAIN edges :
             /\ Count(vertices[edges[i].from].forwards, i) = 1
             /\ Count(vertices[edges[i].to].backwards, i) = 1

(* The same for the loader of the main program alone, where it holds. *)
MainLoaderRegistersAll ==
    pc = "main" =>
        \A i \in DOMAIN edges :
           /\ Count(vertices[edges[i].from].outgoing, i) = 1
           /\ Count(vertices[edges[i].to].incoming, i) = 1

InRange(v) == v \in DOMAIN vertices

InvalidEdge(e) == e.weight < 0 \/ ~InRange(e.from) \/ ~InRange(e.to)

(* the input read so far holds a negative weight or an index outside the    *)
(* vertices                                                                 *)
InvalidInput ==
    \/ \E i \in DOMAIN edges : InvalidEdge(edges[i])
    \/ /\ pc \notin {"read_graph_from_file", "main"}
       /\ ~InRange(source) \/ ~InRange(destination)

(* calculate_heuristic has performed a step *)
PhaseStarted == pc \in {"heuristic_loop", "done"}

(* C13 as stated: on an input with a negative weight or an index outside    *)
(* the vertices, no phase performs a step.                                  *)
CexC13 == InvalidInput => ~PhaseStarted

(* C14 as stated: check_path finds, for every path search hands to it, an   *)
(* edge between every two consecutive vertices and a sum of weights equal   *)
(* to the path_cost handed to it.                                           *)
CexC14 ==
    \A i \in 1..Len(out) :
        out[i].kind \notin {"ERROR!!!", "PATH LENGTH DOES NOT MATCH"}

(* C15 as stated: every call of Queue::update that calculate_heuristic of   *)
(* custom-queue.cpp makes for a vertex passes a priority <= the priority    *)
(* of the element the queue holds for that vertex.                          *)
CexC15 ==
    \A n \in 1..Len(updates) :
        LET u == updates[n]
        IN  u.entry # NoSlot => u.priority <= u.entry.priority

(* C16 as stated: at every call of Queue::update that calculate_heuristic   *)
(* of custom-queue.cpp makes, the index is smaller than the size of the     *)
(* queue and the element at that slot belongs to the vertex edge.from.      *)
CexC16 ==
    \A n \in 1..Len(updates) :
        LET u == updates[n]
        IN  u.index < u.size /\ u.slot.vertex = u.vertex

(* C17 as stated: when a walk leads from the source to the destination and  *)
(* k >= 1, search eventually returns, whichever element the queue yields    *)
(* among those of least priority.                                           *)
CexC17 ==
    (WalkExists(source, destination) /\ k >= 1) => <>(SearchReturned \/ Bounded)

(* C18: when calculate_heuristic has returned, shortest_path[u] <= weight + *)
(* shortest_path[w] for every edge u -> w of the graph, INFINITY being the  *)
(* largest value, and shortest_path[destination] = 0.                       *)
ThmC18 ==
    HeuristicReturned =>
        /\ \A i \in DOMAIN edges :
              vertices[edges[i].from].shortest_path
                 <= Plus(edges[i].weight, vertices[edges[i].to].shortest_path)
        /\ vertices[destination].shortest_path = 0

WitC18 ==
    /\ HeuristicReturned
    /\ \E i, j \in DOMAIN edges :
         /\ edges[i].from # edges[i].to
         /\ vertices[edges[i].from].shortest_path
               < Plus(edges[i].weight, vertices[edges[i].to].shortest_path)
         /\ vertices[edges[i].to].shortest_path < INFINITY
         /\ edges[j].from = edges[i].from
         /\ edges[j].to = destination
         /\ edges[j].from # destination
         /\ vertices[edges[j].from].shortest_path
               = Plus(edges[j].weight, vertices[edges[j].to].shortest_path)

(* C19: in calculate_heuristic of the main program, the iteration that      *)
(* inserts a vertex into visited_vertices pops an element whose path_length *)
(* is the vertex's shortest_path, only an iteration that inserts a vertex   *)
(* writes or pushes, and the shortest_path of a vertex in visited_vertices  *)
(* is not written again.                                                    *)
ThmC19 ==
    [][(pc = "heuristic_loop") =>
          /\ visited_vertices' # visited_vertices =>
                /\ visited_vertices' = visited_vertices \cup {element'.vertex_index}
                /\ element'.path_length = vertices[element'.vertex_index].shortest_path
          /\ visited_vertices' = visited_vertices =>
                /\ vertices' = vertices
                /\ size(queue') = size(queue) - 1
          /\ \A v \in visited_vertices' :
                vertices'[v].shortest_path = vertices[v].shortest_path]_vars

(* a vertex was popped a second time and skipped, after its shortest_path   *)
(* had been lowered while its first element was in the queue                *)
WitC19 ==
    /\ pc \in {"heuristic_loop", "search"}
    /\ element # NoElement
    /\ element.vertex_index \in visited_vertices
    /\ element.path_length > vertices[element.vertex_index].shortest_path

(* C20: search pushes nothing when the element it popped is the             *)
(* destination; every cost it writes is the weight of a walk that ends at   *)
(* its first visit of the destination; and with source = destination and    *)
(* k >= 1 it returns having written the one cost 0.                         *)
ThmC20 ==
    /\ [][(pc = "search_body" /\ element.vertex_index = destination)
             => queue' = queue]_vars
    /\ [](\A i \in 1..Len(Costs) :
             CountWalks(source, Costs[i], MaxWalkLen, FALSE)
                > CountWalks(source, Costs[i] - 1, MaxWalkLen, FALSE))
    /\ []((source = destination /\ SearchReturned /\ CalledK >= 1)
             => Costs = <<0>>)

WitC20 ==
    /\ source = destination
    /\ SearchReturned
    /\ CalledK = 2
    /\ out = <<Cost(0), Separator>>
    /\ \E i, j \in DOMAIN edges :
         /\ edges[i].from = source /\ edges[i].to # source
         /\ edges[j].from = edges[i].to /\ edges[j].to = source

(* C21: calculate_heuristic of the main program returns (its queue becomes  *)
(* empty), and while it runs a shortest_path that changes becomes strictly  *)
(* smaller.                                                                 *)
ThmC21 ==
    /\ <>HeuristicReturned
    /\ [][(pc \in {"calculate_heuristic", "heuristic_loop"}) =>
             /\ \A v \in DOMAIN vertices :
                   vertices'[v].shortest_path # vertices[v].shortest_path
                      => vertices'[v].shortest_path < vertices[v].shortest_path
             /\ (pc' \notin {"calculate_heuristic", "heuristic_loop"}) => empty(queue')]_vars

(* it has returned on a graph with a self-loop of weight zero at a vertex   *)
(* that reaches the destination and with parallel edges                     *)
WitC21 ==
    /\ HeuristicReturned
    /\ \E i, j, l \in DOMAIN edges :
         /\ edges[i].from = edges[i].to
         /\ edges[i].weight = 0
         /\ edges[i].from # destination
         /\ vertices[edges[i].from].shortest_path < INFINITY
         /\ j # l
         /\ edges[j].from = edges[l].from
         /\ edges[j].to = edges[l].to
         /\ edges[j].weight # edges[l].weight

(* the text is a list of costs separated by ", ", with no separator after   *)
(* the last cost, followed by one newline                                   *)
ListAndNewline(text) ==
    /\ text # <<>>
    /\ text[Len(text)] = Endl
    /\ \A i \in 1..(Len(text) - 1) :
          IF i % 2 = 1 THEN IsCost(text[i]) ELSE text[i] = Separator

(* C22 as stated: when search returns, what it has written is a list of the *)
(* costs separated by ", ", with no separator after the last cost,          *)
(* followed by exactly one newline, also when the queue became empty before *)
(* k costs were written.                                                    *)
CexC22 == SearchReturned => ListAndNewline(out)

(* What holds: the text is cost, ", ", cost, ", ", ... and the newline is   *)
(* written exactly when the cost that makes k <= 1 is written.              *)
WrittenBySearch ==
    /\ \A i \in 1..Len(out) :
          IF i % 2 = 1 THEN IsCost(out[i]) ELSE out[i] \in {Separator, Endl}
    /\ \A i \in 1..(Len(out) - 1) : out[i] # Endl
    /\ (SearchReturned /\ out # <<>> /\ out[Len(out)] = Endl) => ListAndNewline(out)

====
